---- MODULE Spec2Model ----
(***************************************************************************)
(* Model of wildcard-domain-finder (src/app.js): the command-line entry    *)
(* point main, DomainFinder.generateDomains, DomainFinder.isDomainAvailable*)
(* DomainFinder.processDomainBatch, DomainFinder.findAvailableDomains, the *)
(* SIGINT handler and the fs write stream the finder writes to.            *)
(*                                                                         *)
(* One action is one turn of the Node.js event loop's job queues: the      *)
(* synchronous code from a callback or an await continuation up to the     *)
(* next await.  Promise continuations (microtasks) run before any further  *)
(* timer, signal, DNS or file-system callback (macrotasks).                *)
(*                                                                         *)
(* Strings are sequences of one-character strings.                         *)
(***************************************************************************)
EXTENDS Integers, Sequences, FiniteSets, TLC

VARIABLES
    options,            \* what main reads of parseArguments' result: [help, concurrentChecks]
    pc,                 \* position of main: init, prompt, running, batchReturned, finished, exited
    exitCode,           \* process exit code, -1 while the process runs
    interrupted,        \* the SIGINT handler ran
    domain,             \* main's variable domain: the pattern it checks (<<>> while missing)
    concurrentChecks,   \* DomainFinder.concurrentChecks
    domains,            \* the candidates generateDomains returned
    stats,              \* DomainFinder.stats: [total, checked, available, errors]
    recentlyFound,      \* DomainFinder.recentlyFound
    currentlyChecking,  \* DomainFinder.currentlyChecking
    i,                  \* processDomainBatch's loop variable (0-based offset)
    pstate,             \* per candidate: idle, resolving, returned, done
    resp,               \* per candidate: the code dns.resolve settled with ("none" before)
    timer,              \* per candidate: isDomainAvailable's timeout: none, armed, fired, cleared
    writer,             \* the write stream: none, open, ended
    fileOpened,         \* the stream's asynchronous open created/truncated the file
    written,            \* the lines handed to writer.write, in order
    persisted,          \* how many of them have reached the file
    reports,            \* history: one entry per displayProgress call
    joined,             \* history: number of batches whose Promise.allSettled was awaited
    genArgs             \* generateDomains' alphabet and randomize argument: [alphabet, randomize]

vars == <<options, pc, exitCode, interrupted, domain, concurrentChecks, domains, stats,
          recentlyFound, currentlyChecking, i, pstate, resp, timer, writer,
          fileOpened, written, persisted, reports, joined, genArgs>>

finderVars == <<domain, concurrentChecks, domains, stats, recentlyFound,
                currentlyChecking, i, pstate, resp, timer, reports, joined, genArgs>>
sinkVars == <<writer, fileOpened, written, persisted>>

----------------------------------------------------------------------------
(* Bounds of the model *)

\* -c/--concurrent takes the values 0 (absent, unparsable or 0) .. MaxConcurrent
MaxConcurrent == 3
\* runs of more candidates than this are explored only with resolutions that succeed
FullEnvCandidates == 4

\* GenSpec: generateDomains is applied to every pattern of at most MaxPatLen characters
MaxPatLen == 3
\* GenSpec: and with every alphabet of 1..MaxAlphabet distinct characters
MaxAlphabet == 2

(* Program constants *)

\* CONFIG.CONCURRENT_CHECKS
CONCURRENT_CHECKS == 10
\* the literal 3 in `this.recentlyFound.length > 3`
RECENT_CAPACITY == 3
\* the literal 5 in `this.stats.checked % 5 === 0`
PROGRESS_EVERY == 5
\* the literal 10 in `this.stats.available <= 10`
SUMMARY_LIST_MAX == 10

\* CONFIG.ALPHABET, cut to its first two characters
ALPHABET == <<"a", "b">>

\* The patterns the operator may supply on the command line or at the prompt.
\* <<>> is the missing or empty pattern (null, undefined and "" are all falsy).
Patterns ==
    { <<>>,
      <<"a", "b">>,
      <<"*", "a">>,
      <<"a", ".", "c">>,
      <<"a", "*", ".", "c">>,
      <<"*", "*", ".", "c">>,
      <<"*", "*", "*", ".", "c">> }

\* GenSpec: the characters patterns are made of, and the characters alphabets are made of
PatternChars == {"a", "*", "."}
AlphabetPool == {"a", "b", "c"}
\* GenSpec: the patterns generateDomains is applied to (and the pattern "te*t.com")
GenPatterns ==
    UNION {[1..m -> PatternChars] : m \in 0..MaxPatLen}
        \cup {<<"t", "e", "*", "t", ".", "c", "o", "m">>}
\* GenSpec: the alphabets (sequences without duplicates)
GenAlphabets ==
    {a \in UNION {[1..m -> AlphabetPool] : m \in 1..MaxAlphabet} :
        \A x, y \in 1..Len(a) : x # y => a[x] # a[y]}

\* What dns.resolve can settle with: success, the two "not found" codes, another failure
DnsCodes == {"OK", "ENOTFOUND", "ENODATA", "ETIMEOUT"}
\* the codes explored in a run of n candidates
DnsCodesFor(n) == IF n > FullEnvCandidates THEN {"OK"} ELSE DnsCodes

----------------------------------------------------------------------------
(* Pure helpers *)

Min(a, b) == IF a < b THEN a ELSE b

\* String.prototype.includes for a single character
Includes(s, ch) == \E k \in 1..Len(s) : s[k] = ch

\* the template literal `${domain}\n`
Line(d) == Append(d, "\n")

\* number of entries of sequence s equal to x
Count(s, x) == Cardinality({k \in 1..Len(s) : s[k] = x})

Reverse(s) == [k \in 1..Len(s) |-> s[Len(s) + 1 - k]]

\* chars.sort(() => Math.random() - 0.5): some permutation of the alphabet
Shuffles(chars) ==
    { [k \in 1..Len(chars) |-> chars[p[k]]] : p \in Permutations(1..Len(chars)) }

\* const chars = CONFIG.ALPHABET.split(""); if (randomize) chars.sort(...)
shuffledChars(alphabet, randomize) == IF randomize THEN Shuffles(alphabet) ELSE {alphabet}

RECURSIVE generateWithWildcard(_, _, _)
RECURSIVE expandChars(_, _, _, _)
RECURSIVE expandChars_Reversed(_, _, _, _)
\* mutant: the candidates of a later character are pushed before those of an earlier one
expandChars_Reversed(dom, index, chars, j) ==
    IF j > Len(chars) THEN <<>>
    ELSE expandChars_Reversed(dom, index, chars, j + 1)
         \o generateWithWildcard([dom EXCEPT ![index] = chars[j]], index + 1, chars)

\* the body of `for (const char of chars)` from the j-th character on
expandChars(dom, index, chars, j) ==
    IF j > Len(chars) THEN <<>>
    ELSE generateWithWildcard([dom EXCEPT ![index] = chars[j]], index + 1, chars)
         \o expandChars(dom, index, chars, j + 1)

\* generateWithWildcard(domain, index): the candidates it pushes, in order (index 1-based)
generateWithWildcard(dom, index, chars) ==
    IF index = Len(dom) + 1 THEN <<dom>>
    ELSE IF dom[index] = "*" THEN expandChars(dom, index, chars, 1)
    ELSE generateWithWildcard(dom, index + 1, chars)

\* mutant: the expansion starts at the second character (index 1 taken as 1-based)
generateDomains_SkipFirst(baseDomain, chars) ==
    IF ~Includes(baseDomain, "*") THEN <<baseDomain>>
    ELSE generateWithWildcard(baseDomain, 2, chars)

generateDomains(baseDomain, chars) ==
    IF ~Includes(baseDomain, "*") THEN <<baseDomain>>
    ELSE generateWithWildcard(baseDomain, 1, chars)

\* constructor: options.concurrentChecks || CONFIG.CONCURRENT_CHECKS
Concurrency(given) == IF given = 0 THEN CONCURRENT_CHECKS ELSE given

\* main's check `!domain`
PatternGiven(d) == d # <<>>

\* mutant: the TLD check is missing
PatternHasTld_Unchecked(d) == TRUE

\* main's check `!domain.includes('.')`
PatternHasTld(d) == Includes(d, ".")

\* mutant: the catch tests ENOTFOUND only
NotFoundCode_OnlyENOTFOUND(code) == code = "ENOTFOUND"

\* isDomainAvailable's catch: error.code === 'ENOTFOUND' || error.code === 'ENODATA'
NotFoundCode(code) == code = "ENOTFOUND" \/ code = "ENODATA"

\* isDomainAvailable's return value for a resolution that settled with `code`
isDomainAvailable(code) == code # "OK" /\ NotFoundCode(code)

\* mutant: stats.errors++ placed before the test of error.code
probeErrors_EveryFailure(code) == IF code # "OK" THEN 1 ELSE 0

\* what isDomainAvailable adds to stats.errors
probeErrors(code) == IF code # "OK" /\ ~NotFoundCode(code) THEN 1 ELSE 0

\* mutant: the slice takes one element more than the loop steps over
BatchIndices_Overlap(off, c, n) == (off + 1)..Min(off + c + 1, n)

\* domains.slice(i, i + concurrentChecks), as 1-based indices
BatchIndices(off, c, n) == (off + 1)..Min(off + c, n)

\* the batch (0-based) the loop `for (i = 0; i < domains.length; i += concurrentChecks)`
\* puts candidate k (1-based) in
BatchOf(k, c) == (k - 1) \div c

\* mutant: push in place of unshift (and shift in place of pop)
pushRecent_AtEnd(ring, d) ==
    LET grown == ring \o <<d>>
    IN  IF Len(grown) > RECENT_CAPACITY THEN SubSeq(grown, 2, Len(grown)) ELSE grown

\* mutant: the eviction is missing
pushRecent_NoEvict(ring, d) == <<d>> \o ring

\* recentlyFound.unshift(domain); if (length > 3) pop()
pushRecent(ring, d) ==
    LET grown == <<d>> \o ring
    IN  IF Len(grown) > RECENT_CAPACITY THEN SubSeq(grown, 1, Len(grown) - 1) ELSE grown

\* mutant: this.stats.available++ placed before the test `if (available)`
countProbe_AvailableAlways(st, available) ==
    [st EXCEPT !.checked = @ + (IF available THEN 1 ELSE 0), !.available = @ + 1]

\* mutant: this.stats.checked++ placed inside `if (available)`
countProbe_CheckedInsideIf(st, available) ==
    IF available THEN [st EXCEPT !.checked = @ + 1, !.available = @ + 1] ELSE st

\* this.stats.checked++; if (available) { this.stats.available++; ... }
countProbe(st, available) ==
    [st EXCEPT !.checked = @ + 1, !.available = @ + (IF available THEN 1 ELSE 0)]

\* mutant: displayProgress is called after every batch
progressDue_Always(checked, total) == TRUE

\* the condition guarding displayProgress after a batch
progressDue(checked, total) == checked % PROGRESS_EVERY = 0 \/ checked = total

\* mutant: the `await` of the join is missing
allSettled_NotAwaited(ps, batch) == TRUE

\* mutant: Promise.race in place of Promise.allSettled
allSettled_FirstDone(ps, batch) == \E k \in batch : ps[k] = "done"

\* mutant: Promise.all over probes that rethrow: a failed resolution rejects the join
\* and processDomainBatch never reaches the code after it
allSettled_NoneFailed(ps, batch) ==
    \A k \in batch : ps[k] = "done" /\ resp[k] \in {"OK", "ENOTFOUND", "ENODATA"}

\* Promise.allSettled(batchPromises) has settled: every probe of the batch has returned
allSettled(ps, batch) == \A k \in batch : ps[k] = "done"

----------------------------------------------------------------------------
(* State helpers *)

NumDomains == Len(domains)
CurrentBatch == BatchIndices(i, concurrentChecks, NumDomains)
InFlight == {k \in 1..NumDomains : pstate[k] \in {"resolving", "returned"}}

\* a promise continuation is queued: it runs before any timer, signal or I/O callback
MicrotaskPending ==
    \/ pc = "batchReturned"
    \/ /\ pc = "running"
       /\ \/ \E k \in 1..NumDomains : pstate[k] = "returned"
          \/ allSettled(pstate, CurrentBatch)

\* batch.map(async (domain) => { this.currentlyChecking = domain; await this.isDomainAvailable(domain) ...
\* run synchronously for every element of the batch up to `await dns.resolve(domain)`
launchedStates(ps, batch) == [k \in DOMAIN ps |-> IF k \in batch THEN "resolving" ELSE ps[k]]
launchedTimers(tm, batch) == [k \in DOMAIN tm |-> IF k \in batch THEN "armed" ELSE tm[k]]
lastOf(batch) == CHOOSE k \in batch : \A j \in batch : j <= k

----------------------------------------------------------------------------
Init ==
    /\ options = [help |-> FALSE, concurrentChecks |-> CONCURRENT_CHECKS]
    /\ pc = "init"
    /\ exitCode = -1
    /\ interrupted = FALSE
    /\ domain = <<>>
    /\ concurrentChecks = 0
    /\ domains = <<>>
    /\ stats = [total |-> 0, checked |-> 0, available |-> 0, errors |-> 0]
    /\ recentlyFound = <<>>
    /\ currentlyChecking = <<>>
    /\ i = 0
    /\ pstate = <<>>
    /\ resp = <<>>
    /\ timer = <<>>
    /\ writer = "none"
    /\ fileOpened = FALSE
    /\ written = <<>>
    /\ persisted = 0
    /\ reports = <<>>
    /\ joined = 0
    /\ genArgs = [alphabet |-> ALPHABET, randomize |-> TRUE]

\* process.exit(code)
Exit(code) ==
    /\ pc' = "exited"
    /\ exitCode' = code

\* new DomainFinder(options); finder.findAvailableDomains(d) up to the first
\* `await Promise.allSettled(batchPromises)` inside processDomainBatch
findAvailableDomains(d, opts) ==
    \E chars \in shuffledChars(genArgs.alphabet, genArgs.randomize) :
        LET ds == generateDomains(d, chars)
            n == Len(ds)
            c == Concurrency(opts.concurrentChecks)
            batch == BatchIndices(0, c, n)
        IN  /\ domain' = d
            /\ concurrentChecks' = c
            /\ domains' = ds
            /\ stats' = [total |-> n, checked |-> 0, available |-> 0, errors |-> 0]
            /\ writer' = "open"
            /\ i' = 0
            /\ pstate' = launchedStates([k \in 1..n |-> "idle"], batch)
            /\ timer' = launchedTimers([k \in 1..n |-> "none"], batch)
            /\ resp' = [k \in 1..n |-> "none"]
            /\ currentlyChecking' = ds[lastOf(batch)]
            /\ pc' = "running"
            /\ UNCHANGED <<exitCode, interrupted, recentlyFound, fileOpened, written,
                           persisted, reports, joined, genArgs>>

\* main from `if (!domain)` on, with the pattern d
mainWithDomain(d, opts) ==
    IF ~PatternGiven(d) \/ ~PatternHasTld(d)
    THEN /\ Exit(1)
         /\ domain' = d
         /\ UNCHANGED <<interrupted, concurrentChecks, domains, stats, recentlyFound,
                        currentlyChecking, i, pstate, resp, timer, reports, joined, genArgs, sinkVars>>
    ELSE findAvailableDomains(d, opts)

\* parseArguments: -c n gives parseInt(n) || CONFIG.CONCURRENT_CHECKS, where n = 0
\* stands for an absent, unparsable or zero value
parseConcurrent(n) == IF n = 0 THEN CONCURRENT_CHECKS ELSE n

\* main(): parseArguments, help, the pattern from the command line
Start ==
    /\ pc = "init"
    /\ \E argDomain \in Patterns, argHelp \in BOOLEAN, argConcurrent \in 0..MaxConcurrent :
          LET opts == [help |-> argHelp, concurrentChecks |-> parseConcurrent(argConcurrent)]
          IN  /\ options' = opts
              /\ IF argHelp
                 THEN /\ pc' = "finished"
                      /\ UNCHANGED <<exitCode, interrupted, finderVars, sinkVars>>
                 ELSE IF ~PatternGiven(argDomain)
                 THEN /\ pc' = "prompt"
                      /\ UNCHANGED <<exitCode, interrupted, finderVars, sinkVars>>
                 ELSE mainWithDomain(argDomain, opts)

\* interactiveMode's question is answered; main continues
PromptAnswer ==
    /\ pc = "prompt"
    /\ options' = options
    /\ \E input \in Patterns : mainWithDomain(input, options)

\* dns.resolve(domains[k]) settles with `code`; isDomainAvailable runs to its return
DnsRespond(k, code) ==
    /\ pc = "running"
    /\ ~MicrotaskPending
    /\ pstate[k] = "resolving"
    /\ resp' = [resp EXCEPT ![k] = code]
    /\ pstate' = [pstate EXCEPT ![k] = "returned"]
    /\ timer' = IF code = "OK" /\ timer[k] = "armed"
                THEN [timer EXCEPT ![k] = "cleared"]
                ELSE timer
    /\ stats' = [stats EXCEPT !.errors = @ + probeErrors(code)]
    /\ UNCHANGED <<options, pc, exitCode, interrupted, domain, concurrentChecks, domains,
                   recentlyFound, currentlyChecking, i, sinkVars, reports, joined, genArgs>>

\* The timers setTimeout(() => controller.abort(), this.timeout) of one batch are armed
\* in the same synchronous launch with the same delay, so they expire together and
\* their callbacks run in one pass over the timer list; batches expire in launch
\* order.  controller.abort() has no listener: the signal is passed to nothing.
TimerFire ==
    /\ pc \in {"running", "finished"}
    /\ ~MicrotaskPending
    /\ \E k \in 1..NumDomains : timer[k] = "armed"
    /\ LET first == CHOOSE k \in 1..NumDomains :
                        /\ timer[k] = "armed"
                        /\ \A j \in 1..(k - 1) : timer[j] # "armed"
           expired == {k \in 1..NumDomains : BatchOf(k, concurrentChecks) = BatchOf(first, concurrentChecks)}
       IN  timer' = [k \in DOMAIN timer |->
                        IF k \in expired /\ timer[k] = "armed" THEN "fired" ELSE timer[k]]
    /\ UNCHANGED <<options, pc, exitCode, interrupted, domain, concurrentChecks, domains,
                   stats, recentlyFound, currentlyChecking, i, pstate, resp, sinkVars,
                   reports, joined, genArgs>>

\* the batch callback after `await this.isDomainAvailable(domain)`
ProbeContinue(k) ==
    /\ pc = "running"
    /\ pstate[k] = "returned"
    /\ pstate' = [pstate EXCEPT ![k] = "done"]
    /\ stats' = countProbe(stats, isDomainAvailable(resp[k]))
    /\ IF isDomainAvailable(resp[k])
       THEN /\ written' = Append(written, Line(domains[k]))
            /\ recentlyFound' = pushRecent(recentlyFound, domains[k])
       ELSE UNCHANGED <<written, recentlyFound>>
    /\ UNCHANGED <<options, pc, exitCode, interrupted, domain, concurrentChecks, domains,
                   currentlyChecking, i, resp, timer, writer, fileOpened, persisted,
                   reports, joined, genArgs>>

\* processDomainBatch after `await Promise.allSettled(batchPromises)`: the progress
\* gate, then the next turn of the loop (the next batch's launch) or the return
BatchJoin ==
    /\ pc = "running"
    /\ \A k \in 1..NumDomains : pstate[k] # "returned"
    /\ allSettled(pstate, CurrentBatch)
    /\ joined' = joined + 1
    /\ reports' = IF progressDue(stats.checked, stats.total)
                  THEN Append(reports, [checked |-> stats.checked,
                                        batches |-> joined + 1,
                                        current |-> currentlyChecking,
                                        inFlight |-> {domains[k] : k \in InFlight}])
                  ELSE reports
    /\ i' = i + concurrentChecks
    /\ IF i' < NumDomains
       THEN LET batch == BatchIndices(i', concurrentChecks, NumDomains)
            IN  /\ pstate' = launchedStates(pstate, batch)
                /\ timer' = launchedTimers(timer, batch)
                /\ currentlyChecking' = domains[lastOf(batch)]
                /\ pc' = pc
       ELSE /\ pc' = "batchReturned"
            /\ UNCHANGED <<pstate, timer, currentlyChecking>>
    /\ UNCHANGED <<options, exitCode, interrupted, domain, concurrentChecks, domains, stats,
                   recentlyFound, resp, sinkVars, genArgs>>

\* findAvailableDomains after `await this.processDomainBatch(domains, writer)`: the
\* summary (which reverses recentlyFound in place when it cannot or does not list the
\* file), finally writer.end(); main returns
FinishRun ==
    /\ pc = "batchReturned"
    /\ \E readOk \in (IF fileOpened THEN {TRUE} ELSE BOOLEAN) :
          recentlyFound' =
              IF Len(recentlyFound) > 0
                 /\ (stats.available > SUMMARY_LIST_MAX \/ ~readOk)
              THEN Reverse(recentlyFound)
              ELSE recentlyFound
    /\ writer' = "ended"
    /\ pc' = "finished"
    /\ UNCHANGED <<options, exitCode, interrupted, domain, concurrentChecks, domains, stats,
                   currentlyChecking, i, pstate, resp, timer, fileOpened, written,
                   persisted, reports, joined, genArgs>>

\* the write stream's asynchronous open: the file is created or truncated (flags "w")
SinkOpen ==
    /\ pc \in {"running", "finished"}
    /\ ~MicrotaskPending
    /\ writer # "none"
    /\ ~fileOpened
    /\ fileOpened' = TRUE
    /\ UNCHANGED <<options, pc, exitCode, interrupted, finderVars, writer, written, persisted>>

\* the write stream writes its next buffered line to the file
SinkFlush ==
    /\ pc \in {"running", "finished"}
    /\ ~MicrotaskPending
    /\ fileOpened
    /\ persisted < Len(written)
    /\ persisted' = persisted + 1
    /\ UNCHANGED <<options, pc, exitCode, interrupted, finderVars, writer, fileOpened, written>>

\* process.on('SIGINT', () => { console.log(...); process.exit(0); })
Sigint ==
    /\ pc \in {"prompt", "running", "finished"}
    /\ ~MicrotaskPending
    /\ interrupted' = TRUE
    /\ Exit(0)
    /\ UNCHANGED <<options, finderVars, sinkVars>>

\* main has returned and nothing keeps the event loop alive: the process ends with code 0
NaturalExit ==
    /\ pc = "finished"
    /\ \A k \in 1..Len(timer) : timer[k] # "armed"
    /\ writer # "none" => (fileOpened /\ persisted = Len(written))
    /\ Exit(0)
    /\ UNCHANGED <<options, interrupted, finderVars, sinkVars>>

Next ==
    \/ Start
    \/ PromptAnswer
    \/ \E k \in 1..NumDomains : \E code \in DnsCodesFor(NumDomains) : DnsRespond(k, code)
    \/ TimerFire
    \/ \E k \in 1..NumDomains : ProbeContinue(k)
    \/ BatchJoin
    \/ FinishRun
    \/ SinkOpen
    \/ SinkFlush
    \/ Sigint
    \/ NaturalExit

Spec == Init /\ [][Next]_vars

\* GenSpec: generateDomains(baseDomain, randomize) applied to a pattern and an alphabet
\* drawn from the bounded sets above
GenInit ==
    /\ genArgs \in [alphabet : GenAlphabets, randomize : BOOLEAN]
    /\ domain \in GenPatterns
    /\ pc = "generate"
    /\ options = [help |-> FALSE, concurrentChecks |-> CONCURRENT_CHECKS]
    /\ exitCode = -1
    /\ interrupted = FALSE
    /\ concurrentChecks = 0
    /\ domains = <<>>
    /\ stats = [total |-> 0, checked |-> 0, available |-> 0, errors |-> 0]
    /\ recentlyFound = <<>>
    /\ currentlyChecking = <<>>
    /\ i = 0
    /\ pstate = <<>>
    /\ resp = <<>>
    /\ timer = <<>>
    /\ writer = "none"
    /\ fileOpened = FALSE
    /\ written = <<>>
    /\ persisted = 0
    /\ reports = <<>>
    /\ joined = 0

\* const domains = this.generateDomains(baseDomain, randomize)
GenCall ==
    /\ pc = "generate"
    /\ \E chars \in shuffledChars(genArgs.alphabet, genArgs.randomize) :
          domains' = generateDomains(domain, chars)
    /\ pc' = "generated"
    /\ UNCHANGED <<options, exitCode, interrupted, domain, concurrentChecks, stats,
                   recentlyFound, currentlyChecking, i, pstate, resp, timer, sinkVars,
                   reports, joined, genArgs>>

GenNext == GenCall

GenSpec == GenInit /\ [][GenNext]_vars

\* The event loop runs every callback that is ready: continuations, expired timers,
\* completed file-system requests, and ends the process when nothing is pending.
\* Nothing obliges the network to answer a query, the operator to answer the prompt
\* or to interrupt.
FairSpec ==
    /\ Spec
    /\ WF_vars(Start)
    /\ WF_vars(TimerFire)
    /\ WF_vars(\E k \in 1..NumDomains : ProbeContinue(k))
    /\ WF_vars(BatchJoin)
    /\ WF_vars(FinishRun)
    /\ WF_vars(SinkOpen)
    /\ WF_vars(SinkFlush)
    /\ WF_vars(NaturalExit)

\* FairSpec on a network where every dns.resolve call settles, with an address or
\* with an error
ResponsiveSpec ==
    /\ FairSpec
    /\ WF_vars(\E k \in 1..NumDomains : \E code \in DnsCodesFor(NumDomains) : DnsRespond(k, code))

----------------------------------------------------------------------------
(* Properties *)

\* the run reached the end of processDomainBatch without being interrupted
RunCompleted ==
    \/ pc \in {"batchReturned", "finished"} /\ writer # "none"
    \/ pc = "exited" /\ ~interrupted /\ writer # "none"

Done == {k \in 1..NumDomains : pstate[k] = "done"}
\* the probe outcomes, read off the code dns.resolve settled with
OutcomeAvailable(k) == resp[k] = "ENOTFOUND" \/ resp[k] = "ENODATA"
OutcomeUnavailable(k) == resp[k] = "OK"
OutcomeError(k) == resp[k] \notin {"none", "OK", "ENOTFOUND", "ENODATA"}

\* C1: every completed probe is counted exactly once in stats.checked (in every state
\* checked is the number of probes whose completion handler has run), and when
\* processDomainBatch has returned checked = total = the number of candidates.
CheckedEqualsTotalAtReturn ==
    /\ stats.checked = Cardinality(Done)
    /\ RunCompleted => /\ stats.total = NumDomains
                       /\ stats.checked = stats.total

\* C1 witness: processDomainBatch has returned from a run of four candidates in
\* batches of three with an Available, an Unavailable and an Error outcome.
CheckedEqualsTotalWitness ==
    /\ pc = "batchReturned"
    /\ NumDomains = 4
    /\ concurrentChecks = 3
    /\ stats.checked = 4
    /\ \E a, b, c \in 1..NumDomains :
          OutcomeAvailable(a) /\ OutcomeUnavailable(b) /\ OutcomeError(c)

\* C2: at most concurrentChecks probes are in flight, and a probe of a later batch is
\* started only when every probe of every earlier batch has finished.
BoundedParallelism ==
    /\ Cardinality(InFlight) <= concurrentChecks
    /\ \A j, k \in 1..NumDomains :
          ((j - 1) \div concurrentChecks < (k - 1) \div concurrentChecks
              /\ pstate[k] # "idle")
          => pstate[j] = "done"

\* C2 witness: the second batch of a run is in flight with as many probes as the
\* batch size, one of them already answered.
BoundedParallelismWitness ==
    /\ pc = "running"
    /\ i > 0
    /\ concurrentChecks = 2
    /\ Cardinality(InFlight) = concurrentChecks
    /\ \E k \in InFlight : pstate[k] = "returned"

\* C6: the lines handed to the sink are exactly the candidates whose probe completed
\* with the Available outcome (ENOTFOUND or ENODATA), each once and newline-terminated;
\* a candidate whose probe ended Unavailable or Error is never written.
WrittenIffAvailable ==
    /\ \A k \in 1..NumDomains :
          Count(written, domains[k] \o <<"\n">>) =
              IF pstate[k] = "done" /\ OutcomeAvailable(k) THEN 1 ELSE 0
    /\ \A j \in 1..Len(written) : \E k \in 1..NumDomains : written[j] = domains[k] \o <<"\n">>

\* C6 witness: a completed run in which one candidate ended ENOTFOUND, one ENODATA,
\* one resolved and one failed otherwise; two lines were written.
WrittenIffAvailableWitness ==
    /\ RunCompleted
    /\ Len(written) = 2
    /\ \E a, b, c, d \in 1..NumDomains :
          /\ resp[a] = "ENOTFOUND" /\ resp[b] = "ENODATA"
          /\ resp[c] = "OK" /\ resp[d] = "ETIMEOUT"

\* C7: when a run completes, stats.available is the number of Available outcomes and
\* stats.errors the number of Error outcomes; an Error is counted in checked and in
\* errors and not in available.
FinalCountsMatchOutcomes ==
    RunCompleted =>
       /\ stats.available = Cardinality({k \in 1..NumDomains : OutcomeAvailable(k)})
       /\ stats.errors = Cardinality({k \in 1..NumDomains : OutcomeError(k)})
       /\ stats.checked = NumDomains
       /\ stats.available + stats.errors
            + Cardinality({k \in 1..NumDomains : OutcomeUnavailable(k)}) = stats.checked

\* C7 witness: a completed run with outcomes Available, Unavailable and Error (and a
\* second Error): available = 1, errors = 2, checked = total = 4.
FinalCountsWitness ==
    /\ RunCompleted
    /\ stats = [total |-> 4, checked |-> 4, available |-> 1, errors |-> 2]
    /\ \E b \in 1..NumDomains : OutcomeUnavailable(b)

\* C8: until the final summary, recentlyFound has at most three entries and holds the
\* min(3, discoveries) most recent discoveries, newest first (the discoveries in
\* order are the lines handed to the sink).
RecentHitsAreNewestThree ==
    writer = "open" =>
       LET n == Len(written)
           m == IF n < 3 THEN n ELSE 3
       IN  /\ Len(recentlyFound) <= 3
           /\ Len(recentlyFound) = m
           /\ \A j \in 1..m : recentlyFound[j] \o <<"\n">> = written[n + 1 - j]

\* C8 witness: four discoveries made across two batches; the oldest was evicted.
RecentHitsWitness ==
    /\ writer = "open"
    /\ concurrentChecks = 3
    /\ Len(written) = 4
    /\ Len(recentlyFound) = 3
    /\ recentlyFound[1] \o <<"\n">> = written[4]

\* the batches processDomainBatch has joined hold candidates 1..JoinedUpTo
JoinedUpTo == IF joined * concurrentChecks < NumDomains THEN joined * concurrentChecks
              ELSE NumDomains

\* C4 (as claimed): a run ended by SIGINT was cancelled cooperatively: when the
\* process exits no probe is left in flight (each launched probe finished and was
\* counted) and the sink has been ended and flushed.
InterruptIsCooperative ==
    (pc = "exited" /\ interrupted /\ writer # "none") =>
       /\ InFlight = {}
       /\ stats.checked = Cardinality({k \in 1..NumDomains : pstate[k] # "idle"})
       /\ writer = "ended"
       /\ persisted = Len(written)

\* C5 (as claimed): after a SIGINT that arrives while a batch is in flight, the file
\* holds the line of every Available candidate of the batches joined before.
InterruptKeepsJoinedDiscoveries ==
    (pc = "exited" /\ interrupted /\ InFlight # {}) =>
       \A k \in 1..JoinedUpTo :
          OutcomeAvailable(k) =>
             \E j \in 1..persisted : written[j] = domains[k] \o <<"\n">>

\* the value of stats.checked when the b-th batch is joined
CheckedAfterBatch(b) ==
    IF b * concurrentChecks < NumDomains THEN b * concurrentChecks ELSE NumDomains

\* C9 (as claimed): the Progress Reporter has been invoked once for every batch joined.
ProgressAfterEveryBatch == Len(reports) = joined

\* C9 (amended): the Progress Reporter is invoked after a joined batch exactly when
\* stats.checked is then a multiple of 5 or equals stats.total; so always after the
\* last batch, and after an earlier batch only at a multiple of 5.
ProgressOnlyWhenDue ==
    LET due == {b \in 1..joined :
                   CheckedAfterBatch(b) % 5 = 0 \/ CheckedAfterBatch(b) = NumDomains}
    IN  /\ Len(reports) = Cardinality(due)
        /\ \A r \in 1..Len(reports) :
              /\ reports[r].batches \in due
              /\ reports[r].checked = CheckedAfterBatch(reports[r].batches)
        /\ pc \in {"batchReturned", "finished"} /\ writer # "none"
              => /\ Len(reports) >= 1
                 /\ reports[Len(reports)].checked = stats.total

\* C9 witness: a run of eight candidates in batches of one has joined six batches:
\* the reporter ran once, after the fifth, and not after the other five.
ProgressOnlyWhenDueWitness ==
    /\ pc = "running"
    /\ NumDomains = 8
    /\ concurrentChecks = 1
    /\ joined = 6
    /\ Len(reports) = 1
    /\ reports[1].checked = 5
    /\ reports[1].batches = 5

\* C10: a pattern that is missing, empty or without a '.' starts no run: no candidate
\* is generated, no probe is started, the output file is neither created nor
\* truncated, and unless help was asked for the process is left only waiting at the
\* prompt or exited, with code 1 when it was main that ended it.
InvalidPatternStartsNothing ==
    (domain = <<>> \/ ~(\E k \in 1..Len(domain) : domain[k] = ".")) =>
       /\ domains = <<>>
       /\ pstate = <<>>
       /\ timer = <<>>
       /\ stats.total = 0
       /\ writer = "none"
       /\ ~fileOpened
       /\ written = <<>>
       /\ ~options.help => pc \in {"init", "prompt", "exited"}
       /\ (pc = "exited" /\ ~interrupted /\ ~options.help) => exitCode = 1

\* C10 witness: main rejected "*a" (a wildcard, no '.') and the process exited with
\* code 1.
InvalidPatternWitness ==
    /\ pc = "exited"
    /\ exitCode = 1
    /\ ~interrupted
    /\ domain = <<"*", "a">>
    /\ domains = <<>>

\* the largest number of candidates a pattern of the model expands to
MaxCandidates ==
    CHOOSE n \in 1..(2 ^ 10) :
       /\ \E p \in Patterns : Len(generateDomains(p, ALPHABET)) = n
       /\ \A p \in Patterns : Len(generateDomains(p, ALPHABET)) <= n

\* C3 (as claimed): a probe still waiting for its resolution when its timeout has
\* expired completes (unless the operator ends the process first).
TimedOutProbeCompletes ==
    \A k \in 1..MaxCandidates :
       [](  (k <= Len(pstate) /\ pstate[k] = "resolving" /\ timer[k] = "fired")
            => <>(pc = "exited" \/ (k <= Len(pstate) /\ pstate[k] = "done")))

\* the wildcard positions of main's pattern, and how many wildcards stand at or before p
WildcardPositions == {p \in 1..Len(domain) : domain[p] = "*"}
WildcardRank(p) == Cardinality({q \in WildcardPositions : q <= p})

\* C11: for a pattern with k wildcards and an alphabet of n distinct characters,
\* generateDomains returns n^k pairwise distinct candidates, each the pattern with
\* every '*' replaced by an alphabet character and every other character unchanged;
\* for k = 0 the one candidate is the pattern itself.
GeneratesEveryCombinationOnce ==
    pc = "generated" =>
       LET n == Len(genArgs.alphabet)
           k == Cardinality(WildcardPositions)
       IN  /\ Len(domains) = n ^ k
           /\ \A x, y \in 1..Len(domains) : x # y => domains[x] # domains[y]
           /\ \A x \in 1..Len(domains) :
                 /\ Len(domains[x]) = Len(domain)
                 /\ \A p \in 1..Len(domain) :
                       IF p \in WildcardPositions
                       THEN \E c \in 1..n : domains[x][p] = genArgs.alphabet[c]
                       ELSE domains[x][p] = domain[p]
           /\ k = 0 => domains = <<domain>>

\* C11 witness: a pattern with two wildcards expanded over a shuffled alphabet of two
\* characters: four candidates.
GeneratesEveryCombinationWitness ==
    /\ pc = "generated"
    /\ genArgs.randomize
    /\ Len(genArgs.alphabet) = 2
    /\ domain = <<"*", ".", "*">>
    /\ Len(domains) = 4

\* C12: with shuffle off, the j-th candidate (j = 1..n^k) is determined by the pattern
\* and the alphabet alone: its r-th wildcard from the left holds the alphabet
\* character number ((j - 1) div n^(k - r)) mod n + 1, so the leftmost wildcard
\* varies slowest and the order follows the alphabet's.
UnshuffledOrderIsDepthFirst ==
    (pc = "generated" /\ ~genArgs.randomize) =>
       LET n == Len(genArgs.alphabet)
           k == Cardinality(WildcardPositions)
       IN  /\ Len(domains) = n ^ k
           /\ \A j \in 1..Len(domains) :
                 domains[j] =
                    [p \in 1..Len(domain) |->
                        IF p \in WildcardPositions
                        THEN genArgs.alphabet[(((j - 1) \div (n ^ (k - WildcardRank(p)))) % n) + 1]
                        ELSE domain[p]]

\* C12 witness: "te*t.com" with alphabet {a, b} and shuffle off gave "teat.com",
\* "tebt.com" in that order.
UnshuffledOrderWitness ==
    /\ pc = "generated"
    /\ ~genArgs.randomize
    /\ genArgs.alphabet = <<"a", "b">>
    /\ domain = <<"t", "e", "*", "t", ".", "c", "o", "m">>
    /\ domains = << <<"t", "e", "a", "t", ".", "c", "o", "m">>,
                    <<"t", "e", "b", "t", ".", "c", "o", "m">> >>

\* the number of batches of the run
NumBatches ==
    IF concurrentChecks = 0 THEN 0
    ELSE (NumDomains + concurrentChecks - 1) \div concurrentChecks

\* C13: when every resolution is answered, a started run that the operator does not
\* interrupt joins every batch, whatever number of probes ended in Error, returns
\* from processDomainBatch and the process ends by itself with code 0.
RunTerminatesDespiteErrors ==
    [](pc = "running" =>
         <>(\/ interrupted
            \/ /\ pc = "exited" /\ exitCode = 0
               /\ joined = NumBatches
               /\ stats.checked = NumDomains
               /\ writer = "ended"))

\* C13 witness: a run of four candidates in batches of three ended by itself after
\* three of its probes, in both batches, ended in Error.
RunTerminatesDespiteErrorsWitness ==
    /\ pc = "exited" /\ ~interrupted
    /\ NumDomains = 4
    /\ concurrentChecks = 3
    /\ joined = 2
    /\ stats.errors = 3
    /\ OutcomeError(1) /\ OutcomeError(4)

\* the probes a step starts
StartedByStep ==
    {k \in 1..Len(pstate') :
        pstate'[k] = "resolving" /\ (k > Len(pstate) \/ pstate[k] # "resolving")}

\* C14: the probes are started batch by batch: each launch starts exactly the
\* candidates whose 0-based index i has floor(i / batchSize) equal to the number of
\* batches joined so far (a consecutive slice of at most batchSize candidates that
\* follows the previous one), none of them started before and no candidate left
\* behind; a completed run has probed every candidate, each once.
BatchesAreConsecutiveSlices ==
    /\ [][StartedByStep # {} =>
            /\ \A k \in StartedByStep : k > Len(pstate) \/ pstate[k] = "idle"
            /\ StartedByStep =
                  {k \in 1..Len(domains') : (k - 1) \div concurrentChecks' = joined'}
            /\ StartedByStep = (i' + 1)..Min(i' + concurrentChecks', Len(domains'))
            /\ Cardinality(StartedByStep) <= concurrentChecks'
            /\ \A j \in 1..i' : pstate'[j] = "done"
            /\ \A j \in (i' + concurrentChecks' + 1)..Len(domains') : pstate'[j] = "idle"]_vars
    /\ [][\A k \in 1..Len(pstate) : pstate[k] = "done" => pstate'[k] = "done"]_vars
    /\ [](RunCompleted => \A k \in 1..NumDomains : pstate[k] = "done")

\* C14 witness: the second batch of a run of four candidates in batches of three is
\* in flight: it is the fourth candidate alone, the first three are done.
BatchesAreConsecutiveSlicesWitness ==
    /\ pc = "running"
    /\ NumDomains = 4
    /\ concurrentChecks = 3
    /\ joined = 1
    /\ i = 3
    /\ pstate = <<"done", "done", "done", "resolving">>

\* C15: once findAvailableDomains has set stats.total, in every state
\* 0 <= available <= checked <= total (and total is the number of candidates).
AvailableCheckedTotalOrdered ==
    writer # "none" =>
       /\ 0 <= stats.available
       /\ stats.available <= stats.checked
       /\ stats.checked <= stats.total
       /\ stats.total = NumDomains

\* C15 witness: in the middle of the second batch, with discoveries made, a
\* resolved name and a probe still waiting: 0 < available < checked < total.
AvailableCheckedTotalWitness ==
    /\ pc = "running"
    /\ i > 0
    /\ 0 < stats.available
    /\ stats.available < stats.checked
    /\ stats.checked < stats.total
    /\ InFlight # {}

\* the step is isDomainAvailable running from the settling of dns.resolve to its return
ProberReturns ==
    \E k \in 1..Len(pstate) :
       pstate[k] = "resolving" /\ k <= Len(pstate') /\ pstate'[k] = "returned"

\* C16 (as claimed): isDomainAvailable only returns its outcome: whatever the
\* outcome, the step leaves the statistics and the recent-hits list as they were.
ProberIsReadOnly ==
    [][ProberReturns => (stats' = stats /\ recentlyFound' = recentlyFound)]_vars

\* C17 (as claimed): whenever displayProgress ran, the domain it showed as currently
\* checked was the domain of a probe in flight at that moment.
ProgressShowsProbeInFlight ==
    \A r \in 1..Len(reports) : reports[r].current \in reports[r].inFlight

\* C19 (as claimed): in every state errors + available <= checked.
ErrorsNeverAheadOfChecked ==
    stats.errors + stats.available <= stats.checked

\* C18: in every state (each lies between two completion handlers, which run one at
\* a time) the number of lines handed to the sink is stats.available, and until the
\* final summary recentlyFound is the last min(3, available) of those lines, newest
\* first: no state shows a discovery counted but not written or written but not
\* listed.
DiscoveryBookkeepingIsAtomic ==
    /\ Len(written) = stats.available
    /\ writer = "open" =>
          LET m == Min(RECENT_CAPACITY, stats.available)
          IN  recentlyFound =
                 [j \in 1..m |->
                     SubSeq(written[Len(written) + 1 - j], 1,
                            Len(written[Len(written) + 1 - j]) - 1)]

\* C18 witness: two probes of one batch have found their names free; the handler of
\* the first has run (counted, written, listed), the other's is still queued.
DiscoveryBookkeepingWitness ==
    /\ pc = "running"
    /\ stats.available = 1
    /\ Len(written) = 1
    /\ Len(recentlyFound) = 1
    /\ \E j, k \in 1..NumDomains :
          /\ BatchOf(j, concurrentChecks) = BatchOf(k, concurrentChecks)
          /\ pstate[j] = "done" /\ OutcomeAvailable(j)
          /\ pstate[k] = "returned" /\ OutcomeAvailable(k)

\* C20: the sink is ended in one step only, taken when processDomainBatch has
\* returned with every batch joined and every probe completed; once ended it stays
\* ended and no line is handed to it; a run that ends without interruption has
\* ended its sink.
SinkEndedOnceAfterLastJoin ==
    /\ [][(writer' = "ended" /\ writer # "ended") =>
             /\ writer = "open"
             /\ pc = "batchReturned"
             /\ joined = NumBatches
             /\ \A k \in 1..NumDomains : pstate[k] = "done"]_vars
    /\ [][writer = "ended" => (writer' = "ended" /\ written' = written)]_vars
    /\ []((pc \in {"finished", "exited"} /\ ~interrupted /\ writer # "none")
             => writer = "ended")

\* C20 witness: a run of four candidates in batches of three, with discoveries in
\* both batches, has ended its sink and exited by itself.
SinkEndedWitness ==
    /\ pc = "exited" /\ ~interrupted
    /\ writer = "ended"
    /\ NumDomains = 4
    /\ concurrentChecks = 3
    /\ joined = 2
    /\ OutcomeAvailable(1) /\ OutcomeAvailable(4)
    /\ Len(written) = 2

====
